---------------------------- MODULE Spec2Model ----------------------------
(***************************************************************************)
(* Demand-response (shiftable industrial load) formulations of             *)
(* simple_industry.py (variant 1), simple_industry_2.py (variant 2) and    *)
(* simple_industry_3.py (variant 3).                                       *)
(*                                                                         *)
(* The program declares parameters, decision variables and constraints     *)
(* over LOAD_ZONES x TIMEPOINTS; an external solver then looks for an       *)
(* assignment of the decision variables that satisfies every constraint.   *)
(* The state of the model is: the input data (time topology, parameters),  *)
(* the position of model construction (pc, err) and the solver's current   *)
(* assignment of the decision variables.                                   *)
(*                                                                         *)
(* Every rule of the source is indexed by (z, t) or (z, ts) and reads only *)
(* data and variables of its own zone z, so one zone is modelled and the   *)
(* zone index is dropped.                                                  *)
(*                                                                         *)
(* Timepoints carry the ids 1..N in chronological order (the clamping      *)
(* variants compute t - i, compare t with durations and with               *)
(* len(TIMEPOINTS), so they assume exactly this).                          *)
(*                                                                         *)
(* Real quantities are whole numbers of one arbitrary unit, except         *)
(* RecoveryDemand, which is held in units of 1/Scale so that the           *)
(* fractional weights of recovery_demand_rule are exact.                   *)
(***************************************************************************)
EXTENDS Integers, Sequences, FiniteSets

VARIABLES
    variant,              \* 1, 2, 3: which formulation was loaded
    TIMEPOINTS,           \* Set of timepoint ids
    TPS_IN_TS,            \* sequence of cycles, each a sequence of timepoint ids
    tp_ts,                \* Param: the cycle of each timepoint
    tp_duration_hrs,      \* Param: the duration of each timepoint (hours)
    zone_demand_mw,       \* Param, per timepoint
    dr_shift_down_limit,  \* Param, per timepoint
    dr_shift_up_limit,    \* Param, per timepoint
    response_time,        \* Param, per timepoint
    recovery_time,        \* Param, per timepoint
    Distributed_Power_Withdrawals,  \* host list: <<>> when the model has no
                                    \* such attribute, else <<list>>
    Zone_Power_Withdrawals,         \* host list of component names
    commodity_module,     \* "none", "commodities" or "commodities_new"
    commodities,          \* the registrations made by add_supply / add_demand,
                          \* in the order they were made
    component_index,      \* the index set of each component that can register
    CommodityBalance,     \* the balance constraints that were built, by
                          \* commodity and index key
    pc,                   \* "module" -> "data" -> "built" | "error"
    err,                  \* exception that stopped construction, or "none"
    is_DR_active,         \* Var, Binary
    ShiftDemandUp,        \* Var
    ShiftDemandDown,      \* Var
    RecoveryDemand,       \* Var, in units of 1/Scale
    shift_demand_abs      \* Var

params == <<variant, TIMEPOINTS, TPS_IN_TS, tp_ts, tp_duration_hrs, zone_demand_mw,
            dr_shift_down_limit, dr_shift_up_limit, response_time, recovery_time>>
host == <<Distributed_Power_Withdrawals, Zone_Power_Withdrawals>>
registry == <<commodity_module, commodities, component_index, CommodityBalance>>
data == <<params, host, registry>>
build == <<pc, err>>
assignment == <<is_DR_active, ShiftDemandUp, ShiftDemandDown, RecoveryDemand,
                shift_demand_abs>>
vars == <<data, build, assignment>>

---------------------------------------------------------------------------
(* Bounds of the model. *)

\* largest magnitude the solver tries for ShiftDemandUp / ShiftDemandDown
MaxShift == 1
\* recovery_time is drawn from 0..MaxRecovery (hours)
MaxRecovery == 2
\* step durations are drawn from 1..MaxDuration (hours)
MaxDuration == 2
\* longest cycle
MaxCycleLen == 12
\* longest horizon of the lockout rules
MaxHorizon == 5
\* response_time is drawn from 0..MaxDelay
MaxDelay == 3

(* Program constants. *)

\* range(1, 7) of dr_min_interval_rule in variants 2 and 3
CooldownWindow == 6
\* range(1, 4) of dr_min_interval_rule in variant 1
CooldownWindow1 == 3
\* 1 / 1e-6, the tolerance of is_dr_active_rule
InvTolerance == 1000000

---------------------------------------------------------------------------
(* Arithmetic helpers. *)

RECURSIVE SumSet(_, _)
SumSet(f, S) ==
    IF S = {} THEN 0
    ELSE LET x == CHOOSE y \in S : TRUE IN f[x] + SumSet(f, S \ {x})

RECURSIVE SumSeq(_, _)
SumSeq(s, k) == IF k = 0 THEN 0 ELSE s[k] + SumSeq(s, k - 1)

RECURSIVE Gcd(_, _)
Gcd(a, b) == IF b = 0 THEN a ELSE Gcd(b, a % b)

RECURSIVE LcmUpTo(_)
LcmUpTo(n) == IF n <= 1 THEN 1 ELSE LET l == LcmUpTo(n - 1) IN (l * n) \div Gcd(l, n)

\* RecoveryDemand is held as a multiple of 1/Scale: every recovery_time in
\* 1..MaxRecovery divides Scale
Scale == LcmUpTo(MaxRecovery)

---------------------------------------------------------------------------
(* Time topology (switch_model.timescales, consumed read-only). *)

TIMESERIES == DOMAIN TPS_IN_TS

TpSet(ts) == {TPS_IN_TS[ts][k] : k \in DOMAIN TPS_IN_TS[ts]}

\* 1-based position of t in its ordered set
ord(ts, t) == CHOOSE k \in DOMAIN TPS_IN_TS[ts] : TPS_IN_TS[ts][k] = t

\* OrderedSet.prevw(t, i): the member i positions before t, wrapping around
prevw(ts, t, i) ==
    TPS_IN_TS[ts][((ord(ts, t) - i - 1) % Len(TPS_IN_TS[ts])) + 1]

\* cycles of the given lengths over the ids 1..N
Cycles(lens) ==
    [k \in DOMAIN lens |->
        [j \in 1..lens[k] |-> SumSeq(lens, k - 1) + j]]

\* switch_model.timescales for cycles of the given lengths and step durations
Timescales(lens, durs) ==
    /\ TPS_IN_TS = Cycles(lens)
    /\ TIMEPOINTS = 1..SumSeq(lens, Len(lens))
    /\ tp_ts = [t \in 1..SumSeq(lens, Len(lens)) |->
                  CHOOSE k \in DOMAIN lens :
                      SumSeq(lens, k - 1) < t /\ t <= SumSeq(lens, k)]
    /\ tp_duration_hrs = [t \in 1..SumSeq(lens, Len(lens)) |->
                  durs[CHOOSE k \in DOMAIN lens :
                      SumSeq(lens, k - 1) < t /\ t <= SumSeq(lens, k)]]

Uniform(v) == [t \in TIMEPOINTS |-> v]

---------------------------------------------------------------------------
(* simple_industry_3.py: variables, expressions and constraint rules.      *)
(* Each rule is TRUE when the current assignment satisfies the constraint  *)
(* the rule returns for that index.                                        *)

\* ShiftDemand = ShiftDemandUp - ShiftDemandDown (Expression)
ShiftDemandOf(up, down) == [t \in TIMEPOINTS |-> up[t] - down[t]]

ShiftDemand == ShiftDemandOf(ShiftDemandUp, ShiftDemandDown)

\* Var(within=NonNegativeReals, bounds=(0, dr_shift_up_limit[z, t]))
ShiftDemandUp_bounds(t) ==
    /\ 0 <= ShiftDemandUp[t]
    /\ ShiftDemandUp[t] <= dr_shift_up_limit[t]

\* mutant: the down-shift bounded by the up limit
ShiftDemandDown_bounds_UpLimit(t) ==
    /\ 0 <= ShiftDemandDown[t]
    /\ ShiftDemandDown[t] <= dr_shift_up_limit[t]

\* Var(within=NonNegativeReals, bounds=(0, dr_shift_down_limit[z, t]))
ShiftDemandDown_bounds(t) ==
    /\ 0 <= ShiftDemandDown[t]
    /\ ShiftDemandDown[t] <= dr_shift_down_limit[t]

\* Var(within=Binary)
is_DR_active_domain(t) == is_DR_active[t] \in {0, 1}

\* Var(within=NonNegativeReals)
shift_demand_abs_domain(t) == shift_demand_abs[t] >= 0

\* the steps of cycle ts, in order
six_hour_timepoints(ts) == TPS_IN_TS[ts]

dr_six_hour_limit_rule_up(ts) ==
    SumSet(ShiftDemandUp, TpSet(ts))
        <= dr_shift_up_limit[six_hour_timepoints(ts)[1]]

\* mutant: the limit is read at the last step of the cycle
dr_six_hour_limit_rule_down_LastStep(ts) ==
    SumSet(ShiftDemandDown, TpSet(ts))
        <= dr_shift_down_limit[six_hour_timepoints(ts)[Len(six_hour_timepoints(ts))]]

dr_six_hour_limit_rule_down(ts) ==
    SumSet(ShiftDemandDown, TpSet(ts))
        <= dr_shift_down_limit[six_hour_timepoints(ts)[1]]

shift_demand_abs_rule1(t) == shift_demand_abs[t] >= ShiftDemand[t]

shift_demand_abs_rule2(t) == shift_demand_abs[t] >= -ShiftDemand[t]

\* mutant: the indicator left out
Enforce_ShiftDemandUp_When_Active_NoIndicator(t) ==
    ShiftDemandUp[t] <= dr_shift_up_limit[t]

Enforce_ShiftDemandUp_When_Active(t) ==
    ShiftDemandUp[t] <= is_DR_active[t] * dr_shift_up_limit[t]

Enforce_ShiftDemandDown_When_Active(t) ==
    ShiftDemandDown[t] <= is_DR_active[t] * dr_shift_down_limit[t]

\* int(recovery_time[z, t] / tp_duration_hrs[t])
n_steps_back(t) == recovery_time[t] \div tp_duration_hrs[t]

\* mutant: the weight does not decay with the lookback count
recovery_weight_Flat(t, i) ==
    Scale - (tp_duration_hrs[i] * Scale) \div recovery_time[t]

\* (1 - i * tp_duration_hrs[i] / recovery_time[z, t]), times Scale.  The
\* duration is read at the timepoint whose id is the lookback count i.
recovery_weight(t, i) ==
    Scale - (i * tp_duration_hrs[i] * Scale) \div recovery_time[t]

RECURSIVE recovery_sum(_, _, _)
recovery_sum(sd, t, i) ==
    IF i = 0 THEN 0
    ELSE sd[prevw(tp_ts[t], t, i)] * recovery_weight(t, i)
         + recovery_sum(sd, t, i - 1)

\* right-hand side of recovery_demand_rule for the shift profile sd, times Scale
recovery_demand_rhs(sd, t) == recovery_sum(sd, t, n_steps_back(t))

recovery_demand_rule(t) ==
    RecoveryDemand[t] = recovery_demand_rhs(ShiftDemand, t)

\* tp_duration_hrs[i] raises KeyError when i is no timepoint id
recovery_demand_rule_raises(t) ==
    \E i \in 1..n_steps_back(t) : i \notin TIMEPOINTS

\* is_DR_active >= shift_demand_abs / dr_shift_up_limit - 1e-6, multiplied
\* through by dr_shift_up_limit * 1e6 (> 0 in every constructed model)
is_dr_active_rule(t) ==
    is_DR_active[t] * dr_shift_up_limit[t] * InvTolerance
        >= shift_demand_abs[t] * InvTolerance - dr_shift_up_limit[t]

\* shift_demand_abs / dr_shift_up_limit raises ZeroDivisionError
is_dr_active_rule_raises(t) == dr_shift_up_limit[t] = 0

\* mutant: the lookback clamped at the first timepoint, as in variant 2
valid_indices3_Clamped(t) ==
    SelectSeq([i \in 1..CooldownWindow |-> t - i], LAMBDA x : x >= 1)

\* valid_indices of variant 3: the six predecessors, wrapping in the cycle
valid_indices3(t) ==
    [i \in 1..CooldownWindow |-> prevw(tp_ts[t], t, i)]

RECURSIVE SumActive(_, _)
SumActive(idx, k) ==
    IF k = 0 THEN 0 ELSE is_DR_active[idx[k]] + SumActive(idx, k - 1)

dr_min_interval_rule3(t) ==
    LET valid_indices == valid_indices3(t) IN
    IF Len(valid_indices) > 0
    THEN SumActive(valid_indices, Len(valid_indices)) <= 1
    ELSE TRUE

enforce_shift_demand_zero_when_inactive_rule_upper(t) ==
    ShiftDemand[t] <= is_DR_active[t] * dr_shift_up_limit[t]

enforce_shift_demand_zero_when_inactive_rule_lower(t) ==
    ShiftDemand[t] >= -(is_DR_active[t] * dr_shift_down_limit[t])

\* sum(ShiftDemand[z, t] + RecoveryDemand[z, t] for t in TPS_IN_TS[ts]) == 0
cycle_sum3(ts) ==
    Scale * SumSet(ShiftDemand, TpSet(ts)) + SumSet(RecoveryDemand, TpSet(ts))

\* mutant: the balance written as an inequality
DR_Shift_Net_Zero3_AtMost(ts) == cycle_sum3(ts) <= 0

DR_Shift_Net_Zero3(ts) == cycle_sum3(ts) = 0

\* the assignment satisfies every variable domain and constraint of variant 3
Feasible3 ==
    /\ \A t \in TIMEPOINTS :
        /\ is_DR_active_domain(t)
        /\ ShiftDemandUp_bounds(t)
        /\ ShiftDemandDown_bounds(t)
        /\ shift_demand_abs_domain(t)
        /\ shift_demand_abs_rule1(t)
        /\ shift_demand_abs_rule2(t)
        /\ Enforce_ShiftDemandUp_When_Active(t)
        /\ Enforce_ShiftDemandDown_When_Active(t)
        /\ recovery_demand_rule(t)
        /\ is_dr_active_rule(t)
        /\ dr_min_interval_rule3(t)
        /\ enforce_shift_demand_zero_when_inactive_rule_upper(t)
        /\ enforce_shift_demand_zero_when_inactive_rule_lower(t)
    /\ \A ts \in TIMESERIES :
        /\ dr_six_hour_limit_rule_up(ts)
        /\ dr_six_hour_limit_rule_down(ts)
        /\ DR_Shift_Net_Zero3(ts)

---------------------------------------------------------------------------
(* simple_industry_2.py: the rules that differ from variant 3. *)

\* (zone_demand_mw - ShiftDemand[t - 1]) / recovery_time[z, t] raises
\* ZeroDivisionError
recovery_demand_rule2_raises(t) == t > 1 /\ recovery_time[t] = 0

\* mutant: strict comparison with the preparation time
enforce_preparation_time_rule_Strict(t) ==
    IF t < response_time[t] THEN is_DR_active[t] = 0 ELSE TRUE

enforce_preparation_time_rule(t) ==
    IF t <= response_time[t] THEN is_DR_active[t] = 0 ELSE TRUE

\* mutant: the last periods start one step early
prevent_dr_in_last_periods_rule_Early(t) ==
    IF t >= Cardinality(TIMEPOINTS) - recovery_time[t]
    THEN is_DR_active[t] = 0
    ELSE TRUE

prevent_dr_in_last_periods_rule(t) ==
    IF t > Cardinality(TIMEPOINTS) - recovery_time[t]
    THEN is_DR_active[t] = 0
    ELSE TRUE

---------------------------------------------------------------------------
(* simple_industry.py: the recovery constraint.  ShiftDemand of variant 1  *)
(* is a single Var over the reals; it is held as the difference            *)
(* ShiftDemandUp - ShiftDemandDown.                                        *)

\* zone_demand_mw[z, t]
original_demand(t) == zone_demand_mw[t]

\* mutant: the shift subtracted from the original demand
reduced_demand_Minus(t) == original_demand(t) - ShiftDemand[t]

\* ShiftDemand[z, t] + original_demand
reduced_demand(t) == ShiftDemand[t] + original_demand(t)

\* ShiftDemand == (original_demand - reduced_demand) / recovery_time,
\* multiplied through by recovery_time (> 0 in this branch)
recovery_constraint_rule(t) ==
    IF recovery_time[t] > 0
    THEN ShiftDemand[t] * recovery_time[t] = original_demand(t) - reduced_demand(t)
    ELSE TRUE

---------------------------------------------------------------------------
(* The minimum-interval rule of the clamping variants                      *)
(* (simple_industry_2.py, simple_industry.py).                             *)

\* mutant: the lookback of variant 2 without the test t - i >= 1
valid_indices2_Unclamped(t) == [i \in 1..CooldownWindow |-> t - i]

\* [t - i for i in range(1, 7) if t - i >= 1]
valid_indices2(t) ==
    SelectSeq([i \in 1..CooldownWindow |-> t - i], LAMBDA x : x >= 1)

\* [t - i for i in range(1, 4) if t - i >= 1]
valid_indices1(t) ==
    SelectSeq([i \in 1..CooldownWindow1 |-> t - i], LAMBDA x : x >= 1)

\* valid_indices of the loaded variant
valid_indices(t) ==
    IF variant = 1 THEN valid_indices1(t)
    ELSE IF variant = 2 THEN valid_indices2(t)
    ELSE valid_indices3(t)

\* dr_min_interval_rule of variants 1 and 2
dr_min_interval_rule(t) ==
    IF Len(valid_indices(t)) > 0
    THEN SumActive(valid_indices(t), Len(valid_indices(t))) <= 1
    ELSE TRUE

\* m.is_DR_active[z, ti] raises KeyError when ti is no timepoint id
dr_min_interval_rule_raises(t) ==
    \E j \in DOMAIN valid_indices(t) : valid_indices(t)[j] \notin TIMEPOINTS

---------------------------------------------------------------------------
(* Model construction: the Param and Constraint components are built in    *)
(* the order of their declaration; the first exception aborts it.          *)

\* the names define_components registers as withdrawals
withdrawal_names(v) ==
    IF v = 3 THEN <<"ShiftDemand", "RecoveryDemand">> ELSE <<"ShiftDemand">>

\* mutant: the names are appended to both host lists
register_Both(dist, zone, names) ==
    IF dist # <<>> THEN <<(<<dist[1] \o names>>), zone \o names>>
    ELSE <<dist, zone \o names>>

\* try: Distributed_Power_Withdrawals.append(...)
\* except AttributeError: Zone_Power_Withdrawals.append(...)
\* gives the two host lists after the registration
register(dist, zone, names) ==
    IF dist # <<>> THEN <<(<<dist[1] \o names>>), zone>>
    ELSE <<dist, zone \o names>>

\* define_components: the components are declared (they are constructed by
\* create_instance) and the withdrawals are registered with the host
define_components ==
    /\ pc = "module"
    /\ pc' = "data"
    /\ Distributed_Power_Withdrawals' =
          register(Distributed_Power_Withdrawals, Zone_Power_Withdrawals,
                   withdrawal_names(variant))[1]
    /\ Zone_Power_Withdrawals' =
          register(Distributed_Power_Withdrawals, Zone_Power_Withdrawals,
                   withdrawal_names(variant))[2]
    /\ UNCHANGED <<params, registry, err, assignment>>

\* mutant: the comparison reversed
validate_Reversed(t) == dr_shift_down_limit[t] >= zone_demand_mw[t]

\* validate=lambda m, value, z, t: value <= m.zone_demand_mw[z, t]
validate(t) == dr_shift_down_limit[t] <= zone_demand_mw[t]

\* the exception construction stops with, or "none"
construction_error ==
    IF \E t \in TIMEPOINTS : ~validate(t) THEN "ValueError"
    ELSE IF variant = 3 /\ \E t \in TIMEPOINTS : recovery_demand_rule_raises(t)
        THEN "KeyError"
    ELSE IF variant = 2 /\ \E t \in TIMEPOINTS : recovery_demand_rule2_raises(t)
        THEN "ZeroDivisionError"
    ELSE IF variant \in {2, 3} /\ \E t \in TIMEPOINTS : is_dr_active_rule_raises(t)
        THEN "ZeroDivisionError"
    ELSE IF \E t \in TIMEPOINTS : dr_min_interval_rule_raises(t) THEN "KeyError"
    ELSE "none"

create_instance ==
    /\ pc = "data"
    /\ err' = construction_error
    /\ pc' = IF construction_error = "none" THEN "built" ELSE "error"
    /\ UNCHANGED <<data, assignment>>

---------------------------------------------------------------------------
(* The solver (external): it moves through assignments of the variables of *)
(* a constructed model.                                                    *)

\* values the solver tries for a continuous variable; -1 lies outside every
\* NonNegativeReals domain
ShiftValues == (-1)..MaxShift

\* the solver sets one binary
SetActive(t, a) ==
    /\ pc = "built"
    /\ is_DR_active[t] # a
    /\ is_DR_active' = [is_DR_active EXCEPT ![t] = a]
    /\ UNCHANGED <<data, build, ShiftDemandUp, ShiftDemandDown, RecoveryDemand,
                   shift_demand_abs>>

SetShiftUp(t, v) ==
    /\ pc = "built"
    /\ ShiftDemandUp[t] # v
    /\ ShiftDemandUp' = [ShiftDemandUp EXCEPT ![t] = v]
    /\ UNCHANGED <<data, build, is_DR_active, ShiftDemandDown, RecoveryDemand,
                   shift_demand_abs>>

SetShiftDown(t, v) ==
    /\ pc = "built"
    /\ ShiftDemandDown[t] # v
    /\ ShiftDemandDown' = [ShiftDemandDown EXCEPT ![t] = v]
    /\ UNCHANGED <<data, build, is_DR_active, ShiftDemandUp, RecoveryDemand,
                   shift_demand_abs>>

SetAbs(t, v) ==
    /\ pc = "built"
    /\ shift_demand_abs[t] # v
    /\ shift_demand_abs' = [shift_demand_abs EXCEPT ![t] = v]
    /\ UNCHANGED <<data, build, is_DR_active, ShiftDemandUp, ShiftDemandDown,
                   RecoveryDemand>>

\* a step at which the solver has dispatched something
Dispatched(t) ==
    is_DR_active[t] # 0 \/ ShiftDemandUp[t] # 0 \/ ShiftDemandDown[t] # 0

\* no more dispatch events are tried than the cooldown admits in the longest cycle
MaxEvents == MaxCycleLen \div CooldownWindow

\* the steps the solver may fix next: those after every dispatched step,
\* while fewer than MaxEvents steps are dispatched
OpenSteps ==
    LET done == {u \in TIMEPOINTS : Dispatched(u)} IN
    IF Cardinality(done) >= MaxEvents THEN {}
    ELSE {t \in TIMEPOINTS : \A u \in done : u < t}

Abs(x) == IF x >= 0 THEN x ELSE -x

\* The solver fixes the decisions of one more step, in chronological order,
\* and resolves the variables they define: shift_demand_abs at its least
\* admissible value and RecoveryDemand by its equality constraint.
SolverAssign(t, up, down, a) ==
    /\ pc = "built"
    /\ <<up, down, a>> # <<0, 0, 0>>
    /\ t \in OpenSteps
    /\ ShiftDemandUp' = [ShiftDemandUp EXCEPT ![t] = up]
    /\ ShiftDemandDown' = [ShiftDemandDown EXCEPT ![t] = down]
    /\ is_DR_active' = [is_DR_active EXCEPT ![t] = a]
    /\ shift_demand_abs' = [shift_demand_abs EXCEPT ![t] = Abs(up - down)]
    /\ RecoveryDemand' =
          [u \in TIMEPOINTS |->
              recovery_demand_rhs(ShiftDemandOf(ShiftDemandUp', ShiftDemandDown'), u)]
    /\ UNCHANGED <<data, build>>

---------------------------------------------------------------------------
(* Initial states: the input data are drawn from bounded sets, nothing is   *)
(* constructed and every variable is 0.                                    *)

\* the commodity registry is not loaded
InitNoCommodities ==
    /\ commodity_module = "none"
    /\ commodities = <<>>
    /\ component_index = <<>>
    /\ CommodityBalance = <<>>

InitValues ==
    /\ is_DR_active = Uniform(0)
    /\ ShiftDemandUp = Uniform(0)
    /\ ShiftDemandDown = Uniform(0)
    /\ RecoveryDemand = Uniform(0)
    /\ shift_demand_abs = Uniform(0)

\* define_components has run on a host without Distributed_Power_Withdrawals
InitAssignment ==
    /\ pc = "data"
    /\ err = "none"
    /\ Distributed_Power_Withdrawals = <<>>
    /\ Zone_Power_Withdrawals =
          register(<<>>, <<"zone_demand_mw">>, withdrawal_names(variant))[2]
    /\ InitNoCommodities
    /\ InitValues

\* cycle structures of the whole-model specification: one cycle as long as
\* the cooldown window, one twice as long (room for two activations), and a
\* short cycle followed by a second one whose steps last differently
WholeTopologies ==
    {<<CooldownWindow>>, <<MaxCycleLen>>, <<2, CooldownWindow>>}

\* variant 3 as a whole: limits that admit every shift the solver tries,
\* default response_time, any recovery_time
Init ==
    /\ variant = 3
    /\ \E lens \in WholeTopologies :
          \E durs \in [DOMAIN lens -> 1..MaxDuration] : Timescales(lens, durs)
    /\ zone_demand_mw = Uniform(MaxShift)
    /\ dr_shift_down_limit = Uniform(MaxShift)
    /\ dr_shift_up_limit = Uniform(MaxShift)
    /\ response_time = Uniform(1)
    /\ \E r \in 0..MaxRecovery : recovery_time = Uniform(r)
    /\ InitAssignment

Next ==
    \/ create_instance
    \/ \E t \in OpenSteps : \E up \in 0..MaxShift, down \in 0..MaxShift, a \in {0, 1} :
          SolverAssign(t, up, down, a)

Spec == Init /\ [][Next]_vars

---------------------------------------------------------------------------
(* Claims checked under Spec (variant 3 as a whole). *)

Built == pc = "built"

\* the cycle holding timepoint t, as a set
CycleOf(t) == TpSet(tp_ts[t])

\* C1: in variant 3, every assignment that satisfies the constraints has, for
\* every cycle, the sum over the cycle of ShiftDemand + RecoveryDemand equal
\* to 0.
C1_CycleBalance ==
    (Built /\ Feasible3) =>
        \A ts \in TIMESERIES :
            SumSet([t \in TIMEPOINTS |-> Scale * ShiftDemand[t] + RecoveryDemand[t]],
                   TpSet(ts)) = 0

\* a feasible assignment with a down-shift, an up-shift and recovery
C1_Witness ==
    /\ Built
    /\ Feasible3
    /\ \E t \in TIMEPOINTS : ShiftDemand[t] < 0
    /\ \E t \in TIMEPOINTS : ShiftDemand[t] > 0
    /\ \E t \in TIMEPOINTS : RecoveryDemand[t] # 0

\* the weight the specification gives step prev(t, i): the duration is that
\* of the earlier step prev(t, i); times Scale
SpecRecoveryWeight(t, i) ==
    Scale - (i * tp_duration_hrs[prevw(tp_ts[t], t, i)] * Scale) \div recovery_time[t]

RECURSIVE SpecRecoverySum(_, _)
SpecRecoverySum(t, i) ==
    IF i = 0 THEN 0
    ELSE ShiftDemand[prevw(tp_ts[t], t, i)] * SpecRecoveryWeight(t, i)
         + SpecRecoverySum(t, i - 1)

\* C2 (as claimed): wherever Recovery_Demand_Constraint holds, RecoveryDemand[t]
\* equals the sum for i = 1..n of ShiftDemand[prev(t, i)] *
\* (1 - i * stepDuration(prev(t, i)) / recovery_time[t]).
C2_RecoveryUsesEarlierStepDuration ==
    \A t \in TIMEPOINTS :
        (Built /\ recovery_demand_rule(t)) =>
            RecoveryDemand[t] = SpecRecoverySum(t, n_steps_back(t))

\* s is the only step of its cycle with a shift, a pure down-shift
SingleDownShift(s) ==
    /\ ShiftDemandUp[s] = 0
    /\ ShiftDemandDown[s] > 0
    /\ \A t \in CycleOf(s) \ {s} : ShiftDemand[t] = 0

\* C3 (as claimed): after a single down-shift of magnitude D, with a recovery
\* window of at least two steps, the RecoveryDemand values of the cycle sum
\* to D, offsetting the down-shift.
C3_RecoveryReturnsShift ==
    \A s \in TIMEPOINTS :
        ( /\ Built
          /\ SingleDownShift(s)
          /\ \A t \in CycleOf(s) : n_steps_back(t) >= 2 /\ recovery_demand_rule(t) )
        => SumSet(RecoveryDemand, CycleOf(s)) = Scale * ShiftDemandDown[s]

\* 5 is the only step of its cycle with a shift, steps 6 and 7 follow it in
\* the cycle, every step lasts 1 h and recovery_time is 2 h
ScenarioA ==
    /\ {5, 6, 7} \subseteq TIMEPOINTS
    /\ {6, 7} \subseteq CycleOf(5)
    /\ \A t \in TIMEPOINTS : tp_duration_hrs[t] = 1 /\ recovery_time[t] = 2
    /\ ShiftDemand[5] # 0
    /\ \A t \in CycleOf(5) \ {5} : ShiftDemand[t] = 0

\* C13: in variant 3 with recovery_time = 2 h and steps of 1 h, a single
\* shift at step 5 gives RecoveryDemand[6] = 0.5 * ShiftDemand[5],
\* RecoveryDemand[7] = 0 and RecoveryDemand = 0 at every other step of the
\* cycle.
C13_ScenarioARecovery ==
    (Built /\ ScenarioA /\ \A t \in CycleOf(5) : recovery_demand_rule(t)) =>
        /\ 2 * RecoveryDemand[6] = Scale * ShiftDemand[5]
        /\ RecoveryDemand[7] = 0
        /\ \A t \in CycleOf(5) \ {6, 7} : RecoveryDemand[t] = 0

\* a down-shift at step 5 with its recovery at step 6
C13_Witness ==
    /\ Built
    /\ ScenarioA
    /\ ShiftDemandDown[5] > 0
    /\ \A t \in CycleOf(5) : recovery_demand_rule(t)
    /\ RecoveryDemand[6] # 0

\* 0-based position of t in its cycle is less than the response delay
WithinResponseDelay(t) == ord(tp_ts[t], t) - 1 < response_time[t]

\* t lies within recovery_time[t] steps of the end of the horizon
WithinRecoveryOfEnd(t) == t > Cardinality(TIMEPOINTS) - recovery_time[t]

\* C10 (as claimed): in variant 3 every feasible assignment has
\* is_DR_active[t] = 0 at every step within the response delay of its cycle
\* start and at every step within the recovery duration of the horizon end.
C10_LockoutInRefined ==
    (Built /\ Feasible3) =>
        \A t \in TIMEPOINTS :
            (WithinResponseDelay(t) \/ WithinRecoveryOfEnd(t)) => is_DR_active[t] = 0

---------------------------------------------------------------------------
(* SpecCooldown: the minimum-interval rule over cycles of every length up   *)
(* to MaxCycleLen; the solver moves the activation indicators only.        *)

InitCooldown ==
    /\ variant = 3
    /\ \E len \in 1..MaxCycleLen : Timescales(<<len>>, <<1>>)
    /\ zone_demand_mw = Uniform(MaxShift)
    /\ dr_shift_down_limit = Uniform(MaxShift)
    /\ dr_shift_up_limit = Uniform(MaxShift)
    /\ response_time = Uniform(1)
    /\ recovery_time = Uniform(0)
    /\ InitAssignment

NextCooldown ==
    \/ create_instance
    \/ \E t \in TIMEPOINTS, a \in {0, 1} : SetActive(t, a)

SpecCooldown == InitCooldown /\ [][NextCooldown]_vars

\* the activations among the steps at positions k..k+len-1 of cycle ts
WindowSum(ts, k, len) ==
    SumSet(is_DR_active, {TPS_IN_TS[ts][j] : j \in k..(k + len - 1)})

\* C4: in variant 3, for every window of 6 consecutive steps of a cycle,
\* every assignment that satisfies DR_Min_Interval_Constraint has at most one
\* step of the window with is_DR_active = 1.
C4_OneActivationPerWindow ==
    (Built /\ \A t \in TIMEPOINTS : dr_min_interval_rule3(t)) =>
        \A ts \in TIMESERIES :
            \A k \in 1..(Len(TPS_IN_TS[ts]) - CooldownWindow + 1) :
                WindowSum(ts, k, CooldownWindow) <= 1

\* the constraints hold in a cycle with two activations
C4_Witness ==
    /\ Built
    /\ \A t \in TIMEPOINTS : dr_min_interval_rule3(t)
    /\ SumSet(is_DR_active, TIMEPOINTS) = 2

---------------------------------------------------------------------------
(* SpecCoupling: the variable bounds and the activation linkage of variant  *)
(* 3 on a cycle of two steps with their own limits; the solver moves every  *)
(* variable of the linkage freely.                                         *)

InitCoupling ==
    /\ variant = 3
    /\ Timescales(<<2>>, <<1>>)
    /\ zone_demand_mw = Uniform(MaxShift)
    /\ dr_shift_down_limit \in [TIMEPOINTS -> 0..MaxShift]
    /\ \E u \in 0..MaxShift : dr_shift_up_limit = Uniform(u)
    /\ response_time = Uniform(1)
    /\ recovery_time = Uniform(0)
    /\ InitAssignment

NextCoupling ==
    \/ create_instance
    \/ \E t \in TIMEPOINTS, a \in {0, 1} : SetActive(t, a)
    \/ \E t \in TIMEPOINTS, v \in ShiftValues : SetShiftUp(t, v)
    \/ \E t \in TIMEPOINTS, v \in ShiftValues : SetShiftDown(t, v)
    \/ \E t \in TIMEPOINTS, v \in 0..MaxShift : SetAbs(t, v)

SpecCoupling == InitCoupling /\ [][NextCoupling]_vars

\* every domain and constraint that links the shift at t to is_DR_active[t]
LocalCoupling(t) ==
    /\ is_DR_active_domain(t)
    /\ ShiftDemandUp_bounds(t)
    /\ ShiftDemandDown_bounds(t)
    /\ shift_demand_abs_domain(t)
    /\ shift_demand_abs_rule1(t)
    /\ shift_demand_abs_rule2(t)
    /\ Enforce_ShiftDemandUp_When_Active(t)
    /\ Enforce_ShiftDemandDown_When_Active(t)
    /\ is_dr_active_rule(t)
    /\ enforce_shift_demand_zero_when_inactive_rule_upper(t)
    /\ enforce_shift_demand_zero_when_inactive_rule_lower(t)

\* C5: in variant 3, an assignment within the variable bounds that satisfies
\* the Enforce_..._When_Active constraints and has a non-zero ShiftDemandUp
\* or ShiftDemandDown at t has is_DR_active[t] = 1; with zero shift at t the
\* linkage at t is satisfied whether is_DR_active[t] is 0 or 1.
C5_ActivationLinkage ==
    Built =>
        \A t \in TIMEPOINTS :
            /\ ( /\ ShiftDemandUp_bounds(t)
                 /\ ShiftDemandDown_bounds(t)
                 /\ Enforce_ShiftDemandUp_When_Active(t)
                 /\ Enforce_ShiftDemandDown_When_Active(t)
                 /\ (ShiftDemandUp[t] # 0 \/ ShiftDemandDown[t] # 0) )
               => is_DR_active[t] = 1
            /\ ( /\ ShiftDemandUp[t] = 0
                 /\ ShiftDemandDown[t] = 0
                 /\ shift_demand_abs[t] = 0 )
               => LocalCoupling(t)

\* one step shifts with its indicator on, the other is active without a shift
C5_Witness ==
    /\ Built
    /\ \E t \in TIMEPOINTS :
        /\ ShiftDemandUp[t] > 0
        /\ is_DR_active[t] = 1
        /\ LocalCoupling(t)
    /\ \E t \in TIMEPOINTS :
        /\ ShiftDemandUp[t] = 0
        /\ ShiftDemandDown[t] = 0
        /\ is_DR_active[t] = 1
        /\ LocalCoupling(t)

\* C6: in variant 3, every assignment within the variable bounds has
\* 0 <= ShiftDemandUp <= dr_shift_up_limit, 0 <= ShiftDemandDown <=
\* dr_shift_down_limit and ShiftDemand in [-dr_shift_down_limit,
\* dr_shift_up_limit].
C6_ShiftBounds ==
    Built =>
        \A t \in TIMEPOINTS :
            (ShiftDemandUp_bounds(t) /\ ShiftDemandDown_bounds(t)) =>
                /\ 0 <= ShiftDemandUp[t]
                /\ ShiftDemandUp[t] <= dr_shift_up_limit[t]
                /\ 0 <= ShiftDemandDown[t]
                /\ ShiftDemandDown[t] <= dr_shift_down_limit[t]
                /\ ShiftDemand[t] >= -dr_shift_down_limit[t]
                /\ ShiftDemand[t] <= dr_shift_up_limit[t]

\* a down-shift at its limit, within the bounds
C6_Witness ==
    /\ Built
    /\ \E t \in TIMEPOINTS :
        /\ ShiftDemandUp_bounds(t)
        /\ ShiftDemandDown_bounds(t)
        /\ ShiftDemandDown[t] > 0
        /\ ShiftDemand[t] = -dr_shift_down_limit[t]

---------------------------------------------------------------------------
(* SpecBuild: construction of the three variants on one or two timepoints, *)
(* with every parameter drawn per timepoint.                               *)

InitBuild ==
    /\ variant \in {1, 2, 3}
    /\ \E lens \in {<<1>>, <<2>>, <<1, 1>>} :
          \E durs \in [DOMAIN lens -> 1..MaxDuration] : Timescales(lens, durs)
    /\ zone_demand_mw \in [TIMEPOINTS -> 0..MaxShift]
    /\ dr_shift_down_limit \in [TIMEPOINTS -> 0..MaxShift]
    /\ dr_shift_up_limit \in [TIMEPOINTS -> 0..MaxShift]
    /\ response_time = Uniform(1)
    /\ \E r \in 0..MaxRecovery : recovery_time = Uniform(r)
    /\ InitAssignment

NextBuild == create_instance

SpecBuild == InitBuild /\ [][NextBuild]_vars

\* C7: when any dr_shift_down_limit[t] exceeds zone_demand_mw[t], validation
\* fails and no model is built; in every model that is built,
\* dr_shift_down_limit[t] <= zone_demand_mw[t] for all steps (all variants).
C7_DownLimitValidated ==
    /\ Built => \A t \in TIMEPOINTS : dr_shift_down_limit[t] <= zone_demand_mw[t]
    /\ (pc # "data" /\ \E t \in TIMEPOINTS : dr_shift_down_limit[t] > zone_demand_mw[t])
          => (pc = "error" /\ err = "ValueError")

\* construction was stopped by the validation of an excessive limit
C7_Witness ==
    /\ pc = "error"
    /\ err = "ValueError"
    /\ \E t \in TIMEPOINTS : dr_shift_down_limit[t] > zone_demand_mw[t]

---------------------------------------------------------------------------
(* SpecLockout: the response-delay and end-of-horizon rules of variant 2    *)
(* over horizons of up to MaxHorizon steps.                                *)

InitLockout ==
    /\ variant = 2
    /\ \E n \in 1..MaxHorizon : Timescales(<<n>>, <<1>>)
    /\ zone_demand_mw = Uniform(MaxShift)
    /\ dr_shift_down_limit = Uniform(MaxShift)
    /\ dr_shift_up_limit = Uniform(MaxShift)
    /\ \E r \in 0..MaxDelay : response_time = Uniform(r)
    /\ \E r \in 0..MaxRecovery : recovery_time = Uniform(r)
    /\ InitAssignment

NextLockout ==
    \/ create_instance
    \/ \E t \in TIMEPOINTS, a \in {0, 1} : SetActive(t, a)

SpecLockout == InitLockout /\ [][NextLockout]_vars

\* 0-based position of t from the start of the horizon
Position(t) == t - 1

\* number of steps of the horizon after t
StepsAfter(t) == Cardinality(TIMEPOINTS) - t

\* C8: in variant 2, is_DR_active[t] is forced to 0 exactly for the steps whose
\* position is less than the response delay from the start of the horizon;
\* with a delay of 3 the step at position 2 is forced and the steps at
\* positions 3 and 4 are not.
C8_ResponseDelayLockout ==
    Built =>
        \A t \in TIMEPOINTS :
            /\ enforce_preparation_time_rule(t)
                  <=> (Position(t) < response_time[t] => is_DR_active[t] = 0)
            /\ (response_time[t] = 3 /\ Position(t) = 2)
                  => (enforce_preparation_time_rule(t) <=> is_DR_active[t] = 0)
            /\ (response_time[t] = 3 /\ Position(t) \in {3, 4})
                  => enforce_preparation_time_rule(t)

\* delay 3: position 2 is held at 0 and position 3 is active, rule satisfied
C8_Witness ==
    /\ Built
    /\ \A t \in TIMEPOINTS : enforce_preparation_time_rule(t)
    /\ \E t, u \in TIMEPOINTS :
        /\ response_time[t] = 3 /\ Position(t) = 2 /\ is_DR_active[t] = 0
        /\ response_time[u] = 3 /\ Position(u) = 4 /\ is_DR_active[u] = 1

\* C9: in variant 2, is_DR_active[t] is forced to 0 for every step within
\* recovery_time[t] steps of the end of the horizon, so an activation that
\* satisfies the rule has its recovery window inside the horizon; earlier
\* steps are not forced.
C9_EndOfHorizonLockout ==
    Built =>
        \A t \in TIMEPOINTS :
            /\ prevent_dr_in_last_periods_rule(t)
                  <=> (StepsAfter(t) < recovery_time[t] => is_DR_active[t] = 0)
            /\ (prevent_dr_in_last_periods_rule(t) /\ is_DR_active[t] = 1)
                  => t + recovery_time[t] <= Cardinality(TIMEPOINTS)

\* the last step that may activate is active and a later one is held at 0
C9_Witness ==
    /\ Built
    /\ \A t \in TIMEPOINTS : prevent_dr_in_last_periods_rule(t)
    /\ \E t \in TIMEPOINTS :
        /\ recovery_time[t] > 0
        /\ StepsAfter(t) = recovery_time[t]
        /\ is_DR_active[t] = 1

---------------------------------------------------------------------------
(* Further claims checked under SpecBuild. *)

\* a step whose up or down shift limit is zero
ZeroLimit(t) == dr_shift_up_limit[t] = 0 \/ dr_shift_down_limit[t] = 0

\* C11 (as claimed): in variants 2 and 3, when some step has a zero shift
\* limit, building Is_DR_Active_Constraint raises no division-by-zero error
\* (the coupling is skipped at that step).
C11_ZeroLimitCouplingSkipped ==
    (pc # "data" /\ variant \in {2, 3} /\ \E t \in TIMEPOINTS : ZeroLimit(t)) =>
        ~( /\ err = "ZeroDivisionError"
           /\ (variant = 2 => \A t \in TIMEPOINTS : ~recovery_demand_rule2_raises(t)) )

---------------------------------------------------------------------------
(* SpecInterval: the minimum-interval rule of the clamping variants over   *)
(* horizons of up to MaxSteps steps; the solver moves the indicators only. *)

\* longest horizon of the clamping variants: longer than CooldownWindow + 1
MaxSteps == 8

InitInterval ==
    /\ variant \in {1, 2}
    /\ \E n \in 1..MaxSteps : Timescales(<<n>>, <<1>>)
    /\ zone_demand_mw = Uniform(MaxShift)
    /\ dr_shift_down_limit = Uniform(MaxShift)
    /\ dr_shift_up_limit = Uniform(MaxShift)
    /\ response_time = Uniform(1)
    /\ recovery_time = Uniform(1)
    /\ InitAssignment

NextInterval ==
    \/ create_instance
    \/ \E t \in TIMEPOINTS, a \in {0, 1} : SetActive(t, a)

SpecInterval == InitInterval /\ [][NextInterval]_vars

\* the cooldown window of the loaded clamping variant
WindowOf(v) == IF v = 1 THEN CooldownWindow1 ELSE CooldownWindow

\* the steps t-k..t-1 that exist
Predecessors(t, k) == {u \in TIMEPOINTS : t - k <= u /\ u < t}

\* C12: in variants 1 (k = 3) and 2 (k = 6), building the cooldown
\* constraint raises no error; the constraint of step t refers to exactly the
\* existing predecessors t-1..t-k and bounds their number of activations by
\* 1, and the constraint of the first step is trivially satisfied.
C12_ClampedLookback ==
    (pc # "data" /\ variant \in {1, 2}) =>
        /\ err # "KeyError"
        /\ Built =>
             \A t \in TIMEPOINTS :
                 /\ {valid_indices(t)[j] : j \in DOMAIN valid_indices(t)}
                        = Predecessors(t, WindowOf(variant))
                 /\ dr_min_interval_rule(t)
                        <=> SumSet(is_DR_active, Predecessors(t, WindowOf(variant))) <= 1
                 /\ (Predecessors(t, WindowOf(variant)) = {}) => dr_min_interval_rule(t)

\* every step active on a horizon longer than the window: the first step's
\* constraint holds, that of a later step fails
C12_Witness ==
    /\ Built
    /\ Cardinality(TIMEPOINTS) > CooldownWindow
    /\ \A t \in TIMEPOINTS : is_DR_active[t] = 1
    /\ dr_min_interval_rule(1)
    /\ ~dr_min_interval_rule(Cardinality(TIMEPOINTS))

\* C14 (as claimed): in variant 1 (window of 3 steps), on every horizon that
\* contains steps 2 and 3, no assignment with is_DR_active = 1 at both
\* step 2 and step 3 satisfies the minimum-interval constraints.
C14_AdjacentActivationsInfeasible ==
    ( /\ Built
      /\ variant = 1
      /\ {2, 3} \subseteq TIMEPOINTS
      /\ is_DR_active[2] = 1
      /\ is_DR_active[3] = 1 )
    => \E t \in TIMEPOINTS : ~dr_min_interval_rule(t)

---------------------------------------------------------------------------
(* SpecRegister: define_components and construction of the three variants  *)
(* on hosts with and without Distributed_Power_Withdrawals.                *)

InitRegister ==
    /\ variant \in {1, 2, 3}
    /\ \E lens \in {<<1>>, <<2>>} :
          \E durs \in [DOMAIN lens -> 1..MaxDuration] : Timescales(lens, durs)
    /\ zone_demand_mw = Uniform(MaxShift)
    /\ dr_shift_down_limit \in [TIMEPOINTS -> 0..MaxShift]
    /\ dr_shift_up_limit = Uniform(MaxShift)
    /\ response_time = Uniform(1)
    /\ \E r \in 0..MaxRecovery : recovery_time = Uniform(r)
    /\ Distributed_Power_Withdrawals \in {<<>>, <<(<<>>)>>, <<(<<"zone_demand_mw">>)>>}
    /\ Zone_Power_Withdrawals \in {<<"zone_demand_mw">>, <<"WithdrawFromCentralGrid">>}
    /\ pc = "module"
    /\ err = "none"
    /\ InitNoCommodities
    /\ InitValues

NextRegister ==
    \/ define_components
    \/ create_instance

SpecRegister == InitRegister /\ [][NextRegister]_vars

\* number of times name occurs in the two host lists
Occurrences(dist, zone, name) ==
    Cardinality({i \in DOMAIN zone : zone[i] = name})
    + (IF dist = <<>> THEN 0
       ELSE Cardinality({i \in DOMAIN dist[1] : dist[1][i] = name}))

\* C15: define_components registers the withdrawals in exactly one host
\* list: in Distributed_Power_Withdrawals when the model has it, leaving
\* Zone_Power_Withdrawals unchanged, otherwise in Zone_Power_Withdrawals;
\* "ShiftDemand" is appended exactly once in every variant and
\* "RecoveryDemand" exactly once in variant 3 only; nothing is registered
\* afterwards.
C15_WithdrawalRegistration ==
    [][ /\ pc = "module" =>
            /\ (Distributed_Power_Withdrawals # <<>>) =>
                  /\ Zone_Power_Withdrawals' = Zone_Power_Withdrawals
                  /\ Len(Distributed_Power_Withdrawals'[1])
                        > Len(Distributed_Power_Withdrawals[1])
            /\ (Distributed_Power_Withdrawals = <<>>) =>
                  /\ Distributed_Power_Withdrawals' = <<>>
                  /\ Len(Zone_Power_Withdrawals') > Len(Zone_Power_Withdrawals)
            /\ Occurrences(Distributed_Power_Withdrawals', Zone_Power_Withdrawals',
                           "ShiftDemand")
                  = Occurrences(Distributed_Power_Withdrawals, Zone_Power_Withdrawals,
                                "ShiftDemand") + 1
            /\ Occurrences(Distributed_Power_Withdrawals', Zone_Power_Withdrawals',
                           "RecoveryDemand")
                  = Occurrences(Distributed_Power_Withdrawals, Zone_Power_Withdrawals,
                                "RecoveryDemand") + (IF variant = 3 THEN 1 ELSE 0)
        /\ pc # "module" => UNCHANGED host
      ]_vars

\* variant 3 has registered both names in Distributed_Power_Withdrawals
C15_Witness ==
    /\ pc # "module"
    /\ variant = 3
    /\ Distributed_Power_Withdrawals # <<>>
    /\ Occurrences(Distributed_Power_Withdrawals, <<>>, "ShiftDemand") = 1
    /\ Occurrences(Distributed_Power_Withdrawals, <<>>, "RecoveryDemand") = 1
    /\ Occurrences(<<>>, Zone_Power_Withdrawals, "ShiftDemand") = 0

---------------------------------------------------------------------------
(* The commodity-balance registry (study_modules/commodities.py and        *)
(* study_modules/commodities_new.py).  A registration is a record          *)
(* [commodity, side, expr]; the dictionaries of the source are read off    *)
(* the sequence of registrations, which keeps their insertion order.  A    *)
(* built balance constraint is held as the two lists of terms              *)
(* <<component, key>> whose sums it equates.                               *)

\* most registrations made before the model is built
MaxRegistrations == 3

\* commodities that modules register for
Commodities == {"steam", "hydrogen"}

\* components that modules register (energy_export.py registers these three
\* for steam)
Components == {"zone_steam_demand", "ZoneDirectSteamTotal", "ZoneCogenSteam"}

\* the kind of each component: indexing a Param that is not mutable gives a
\* number, indexing an Expression gives an expression
component_kind ==
    [e \in Components |-> IF e = "zone_steam_demand" THEN "Param" ELSE "Expression"]

\* keys of the dictionary commodities, in insertion order
RECURSIVE CommodityKeys(_)
CommodityKeys(log) ==
    IF log = <<>> THEN <<>>
    ELSE LET front == CommodityKeys(SubSeq(log, 1, Len(log) - 1))
             c == log[Len(log)].commodity
         IN  IF \E j \in DOMAIN front : front[j] = c THEN front
             ELSE Append(front, c)

\* keys ("supply", "demand") of the dictionary commodities[c], in insertion order
RECURSIVE SideKeys(_, _)
SideKeys(log, c) ==
    IF log = <<>> THEN <<>>
    ELSE LET front == SideKeys(SubSeq(log, 1, Len(log) - 1), c)
             r == log[Len(log)]
         IN  IF r.commodity # c \/ \E j \in DOMAIN front : front[j] = r.side
             THEN front
             ELSE Append(front, r.side)

\* commodities[c].get(side, []): the names registered on one side
RegisteredNames(log, c, side) ==
    LET Test(r) == r.commodity = c /\ r.side = side
        sel == SelectSeq(log, Test)
    IN  [j \in DOMAIN sel |-> sel[j].expr]

\* the names visited by "for supply_demand, exprs in commodities[c].items():
\* for expr_name in exprs"
RECURSIVE ItemsNames(_, _, _)
ItemsNames(log, c, sides) ==
    IF sides = <<>> THEN <<>>
    ELSE RegisteredNames(log, c, Head(sides)) \o ItemsNames(log, c, Tail(sides))

AllNames(c) == ItemsNames(commodities, c, SideKeys(commodities, c))

\* commodity_index of commodities.py raises ValueError: some component is
\* indexed differently than the first one
commodity_index_raises(c) ==
    \E j \in DOMAIN AllNames(c) :
        component_index[AllNames(c)[j]] # component_index[AllNames(c)[1]]

\* commodity_index of commodities.py: the index keys of the first component
commodity_index(c) == component_index[AllNames(c)[1]]

\* commodity_index of commodities_new.py: the index keys of the last component
commodity_index_new(c) == component_index[AllNames(c)[Len(AllNames(c))]]

\* the rule of pre_solve returns supply == demand with a number on both
\* sides, a bool, when every component registered for c is a Param (an
\* empty side sums to 0); Constraint rejects a bool with ValueError
balance_rule_raises(c) ==
    \A j \in DOMAIN AllNames(c) : component_kind[AllNames(c)[j]] = "Param"

\* the terms summed by commodity_sum
commodity_sum(c, supply_demand, keys) ==
    LET names == RegisteredNames(commodities, c, supply_demand)
    IN  [j \in DOMAIN names |-> <<names[j], keys>>]

\* the balance constraints of the commodities in done, indexed by index[c]
Balances(done, index) ==
    [c \in done |->
        [keys \in index[c] |->
            [supply |-> commodity_sum(c, "supply", keys),
             demand |-> commodity_sum(c, "demand", keys)]]]

\* position of the first commodity whose index check or balance rule
\* raises, or one past the last commodity
FirstRaising ==
    LET keys == CommodityKeys(commodities)
        bad == {j \in DOMAIN keys :
                   commodity_index_raises(keys[j]) \/ balance_rule_raises(keys[j])}
    IN  IF bad = {} THEN Len(keys) + 1
        ELSE CHOOSE j \in bad : \A i \in bad : j <= i

\* the commodities handled before the loop over commodities stops
HandledCommodities ==
    {CommodityKeys(commodities)[j] : j \in 1..(FirstRaising - 1)}

add_supply_demand(supply_demand, commodity, expr) ==
    /\ pc = "module"
    /\ commodity_module # "none"
    /\ Len(commodities) < MaxRegistrations
    /\ commodities' = Append(commodities,
          [commodity |-> commodity, side |-> supply_demand, expr |-> expr])
    /\ UNCHANGED <<params, host, commodity_module, component_index,
                   CommodityBalance, build, assignment>>

add_supply(commodity, expr) == add_supply_demand("supply", commodity, expr)

add_demand(commodity, expr) == add_supply_demand("demand", commodity, expr)

\* commodities.py: one Constraint per commodity, in the order of the
\* dictionary; the loop stops with ValueError at the first commodity whose
\* components are indexed differently (commodity_index) or are all Params
\* (the rule returns a bool)
pre_solve ==
    /\ pc = "module"
    /\ commodity_module = "commodities"
    /\ CommodityBalance' = Balances(HandledCommodities,
                                     [c \in HandledCommodities |-> commodity_index(c)])
    /\ err' = IF FirstRaising <= Len(CommodityKeys(commodities))
              THEN "ValueError" ELSE "none"
    /\ pc' = IF FirstRaising <= Len(CommodityKeys(commodities))
             THEN "error" ELSE "built"
    /\ UNCHANGED <<params, host, commodity_module, commodities, component_index,
                   assignment>>

\* the BuildAction components of the model: define_dynamic_components binds
\* its BuildAction to the local name Construct_CommodityBalance and never
\* attaches it to the model
BuildActions == {}

\* commodities_new.py: CommodityBalance = Constraint(Any) is declared and
\* constructed; its entries are added by rule, which runs only as a
\* BuildAction of the model
define_dynamic_components ==
    /\ pc = "module"
    /\ commodity_module = "commodities_new"
    /\ IF "Construct_CommodityBalance" \in BuildActions
       THEN /\ CommodityBalance' = Balances(HandledCommodities,
                        [c \in HandledCommodities |-> commodity_index_new(c)])
            /\ err' = IF FirstRaising <= Len(CommodityKeys(commodities))
                      THEN "ValueError" ELSE "none"
            /\ pc' = IF FirstRaising <= Len(CommodityKeys(commodities))
                     THEN "error" ELSE "built"
       ELSE /\ CommodityBalance' = <<>>
            /\ err' = "none"
            /\ pc' = "built"
    /\ UNCHANGED <<params, host, commodity_module, commodities, component_index,
                   assignment>>

\* SpecCommodity: modules register supplies and demands, then the balance
\* is built
InitCommodity ==
    /\ variant = 3
    /\ Timescales(<<2>>, <<1>>)
    /\ zone_demand_mw = Uniform(MaxShift)
    /\ dr_shift_down_limit = Uniform(MaxShift)
    /\ dr_shift_up_limit = Uniform(MaxShift)
    /\ response_time = Uniform(1)
    /\ recovery_time = Uniform(0)
    /\ Distributed_Power_Withdrawals = <<>>
    /\ Zone_Power_Withdrawals = <<"zone_demand_mw">>
    /\ commodity_module \in {"commodities", "commodities_new"}
    /\ commodities = <<>>
    /\ component_index \in [Components -> {TIMEPOINTS, TIMESERIES}]
    /\ CommodityBalance = <<>>
    /\ pc = "module"
    /\ err = "none"
    /\ InitValues

NextCommodity ==
    \/ \E c \in Commodities, e \in Components : add_supply(c, e)
    \/ \E c \in Commodities, e \in Components : add_demand(c, e)
    \/ pre_solve
    \/ define_dynamic_components

SpecCommodity == InitCommodity /\ [][NextCommodity]_vars

\* the commodities with a registration
Registered == {commodities[j].commodity : j \in DOMAIN commodities}

\* the components registered for commodity c on one side, as terms at keys
TermsAt(c, side, keys) ==
    {<<j, commodities[j].expr, keys>> :
        j \in {i \in DOMAIN commodities :
                  commodities[i].commodity = c /\ commodities[i].side = side}}

\* the terms of one side of a built balance, by their position in the sum
TermsOf(sum) == {<<j, sum[j][1], sum[j][2]>> : j \in DOMAIN sum}

\* the index keys of the components registered for c
RegisteredKeys(c) ==
    UNION {component_index[commodities[j].expr] :
              j \in {i \in DOMAIN commodities : commodities[i].commodity = c}}

\* C16 (as claimed): after any registrations followed by a successful build,
\* the model holds, for every registered commodity and every key of the
\* registered components' index, a balance constraint that equates the sum
\* of all registered supplies with the sum of all registered demands at that
\* key (commodities.py and commodities_new.py).
C16_BalanceBuilt ==
    (pc = "built" /\ commodity_module # "none") =>
        \A c \in Registered :
            /\ c \in DOMAIN CommodityBalance
            /\ \A keys \in RegisteredKeys(c) :
                /\ keys \in DOMAIN CommodityBalance[c]
                /\ Len(CommodityBalance[c][keys].supply)
                      = Cardinality(TermsAt(c, "supply", keys))
                /\ Len(CommodityBalance[c][keys].demand)
                      = Cardinality(TermsAt(c, "demand", keys))
                /\ \A term \in TermsOf(CommodityBalance[c][keys].supply) :
                      \E r \in TermsAt(c, "supply", keys) :
                          r[2] = term[2] /\ r[3] = term[3]
                /\ \A term \in TermsOf(CommodityBalance[c][keys].demand) :
                      \E r \in TermsAt(c, "demand", keys) :
                          r[2] = term[2] /\ r[3] = term[3]

\* two components registered for c have different index sets
MixedIndex(c) ==
    \E i, j \in DOMAIN commodities :
        /\ commodities[i].commodity = c
        /\ commodities[j].commodity = c
        /\ component_index[commodities[i].expr] # component_index[commodities[j].expr]

\* C17 (as claimed): when two components registered for a commodity have
\* different index sets, building the balance raises ValueError and no
\* balance constraint exists for that commodity; when no commodity has such
\* components, no error is raised and each balance is indexed by exactly
\* the components' index set.
C17_IndexConsistency ==
    (pc \in {"built", "error"} /\ commodity_module # "none") =>
        /\ \A c \in Registered :
              MixedIndex(c) => (err = "ValueError" /\ c \notin DOMAIN CommodityBalance)
        /\ (\A c \in Registered : ~MixedIndex(c)) =>
              /\ err = "none"
              /\ \A c \in Registered :
                    /\ c \in DOMAIN CommodityBalance
                    /\ DOMAIN CommodityBalance[c] = RegisteredKeys(c)

---------------------------------------------------------------------------
(* Further claims checked under Spec (variant 3 as a whole). *)

\* the step duration and the recovery_time are the same at every step of ts
UniformCycle(ts) ==
    \A t, u \in TpSet(ts) :
        tp_duration_hrs[t] = tp_duration_hrs[u] /\ recovery_time[t] = recovery_time[u]

\* sum for i = 1..k of (1 - i * d / R), times Scale
RECURSIVE SpecWeightSum(_, _, _)
SpecWeightSum(d, R, k) ==
    IF k = 0 THEN 0
    ELSE (Scale - (k * d * Scale) \div R) + SpecWeightSum(d, R, k - 1)

\* W of cycle ts, times Scale, from the duration d and recovery_time R of
\* the cycle's own steps
SpecW(ts) ==
    LET t == TPS_IN_TS[ts][1] IN
    SpecWeightSum(tp_duration_hrs[t], recovery_time[t],
                  recovery_time[t] \div tp_duration_hrs[t])

\* C18 (as claimed): in variant 3, in a cycle with uniform step duration d
\* and recovery_time R, wherever Recovery_Demand_Constraint holds the sum
\* of RecoveryDemand over the cycle is W times the sum of ShiftDemand, with
\* W = sum for i = 1..floor(R/d) of (1 - i*d/R) >= 0, and the cycle balance
\* holds if and only if the sum of ShiftDemand over the cycle is 0.
C18_BalanceEquivalentToNetZero ==
    (Built /\ \A t \in TIMEPOINTS : recovery_demand_rule(t)) =>
        \A ts \in TIMESERIES :
            UniformCycle(ts) =>
                /\ SpecW(ts) >= 0
                /\ Scale * SumSet(RecoveryDemand, TpSet(ts))
                      = SpecW(ts) * Scale * SumSet(ShiftDemand, TpSet(ts))
                /\ DR_Shift_Net_Zero3(ts) <=> SumSet(ShiftDemand, TpSet(ts)) = 0

---------------------------------------------------------------------------
(* SpecRecovery1: Recovery_Constraint of variant 1 on two steps with their *)
(* own recovery_time; the solver moves the shift freely.                   *)

InitRecovery1 ==
    /\ variant = 1
    /\ Timescales(<<2>>, <<1>>)
    /\ \E v \in 0..MaxShift : zone_demand_mw = Uniform(v)
    /\ dr_shift_down_limit = Uniform(0)
    /\ dr_shift_up_limit = Uniform(MaxShift)
    /\ response_time = Uniform(1)
    /\ recovery_time \in [TIMEPOINTS -> 0..MaxRecovery]
    /\ InitAssignment

NextRecovery1 ==
    \/ create_instance
    \/ \E t \in TIMEPOINTS, v \in 0..MaxShift : SetShiftUp(t, v)
    \/ \E t \in TIMEPOINTS, v \in 0..MaxShift : SetShiftDown(t, v)

SpecRecovery1 == InitRecovery1 /\ [][NextRecovery1]_vars

\* C19: in variant 1, at every step with recovery_time > 0 the only value
\* of ShiftDemand that satisfies Recovery_Constraint is 0; a non-zero shift
\* satisfies it only at steps with recovery_time = 0.
C19_RecoveryForcesZeroShift ==
    Built =>
        \A t \in TIMEPOINTS :
            /\ recovery_time[t] > 0 => (recovery_constraint_rule(t) <=> ShiftDemand[t] = 0)
            /\ (recovery_constraint_rule(t) /\ ShiftDemand[t] # 0) => recovery_time[t] = 0

\* a shift at a step without recovery satisfies the constraint, the same
\* shift at a step with recovery violates it
C19_Witness ==
    /\ Built
    /\ \E t, u \in TIMEPOINTS :
        /\ recovery_time[t] = 0
        /\ ShiftDemand[t] # 0
        /\ recovery_constraint_rule(t)
        /\ recovery_time[u] > 0
        /\ ShiftDemand[u] = ShiftDemand[t]
        /\ ~recovery_constraint_rule(u)

---------------------------------------------------------------------------
(* Further claims checked under SpecCooldown. *)

\* the steps of the cooldown window built for step t
WindowSteps(t) == {valid_indices3(t)[j] : j \in DOMAIN valid_indices3(t)}

\* t is the only active step of its cycle
LoneActivation(t) ==
    /\ is_DR_active[t] = 1
    /\ \A u \in CycleOf(t) \ {t} : is_DR_active[u] = 0

\* C20 (as claimed): in variant 3, for every cycle length, the cooldown
\* window built for step t consists of 6 pairwise distinct steps of t's
\* cycle and does not contain t, and the constraints never forbid a lone
\* activation in a cycle.
C20_WindowStepsDistinct ==
    Built =>
        \A t \in TIMEPOINTS :
            /\ Cardinality(WindowSteps(t)) = CooldownWindow
            /\ WindowSteps(t) \subseteq CycleOf(t)
            /\ t \notin WindowSteps(t)
            /\ LoneActivation(t) => \A u \in CycleOf(t) : dr_min_interval_rule3(u)

---------------------------------------------------------------------------
(* SpecSixHour: the per-cycle limits of variant 3 on a cycle of two steps  *)
(* with their own limits; the solver moves the two shifts freely.          *)

\* largest shift limit of a step
MaxLimit == 2

InitSixHour ==
    /\ variant = 3
    /\ Timescales(<<2>>, <<1>>)
    /\ zone_demand_mw = Uniform(MaxLimit)
    /\ dr_shift_down_limit \in [TIMEPOINTS -> 0..MaxLimit]
    /\ dr_shift_up_limit \in [TIMEPOINTS -> 1..MaxLimit]
    /\ response_time = Uniform(1)
    /\ recovery_time = Uniform(0)
    /\ InitAssignment

NextSixHour ==
    \/ create_instance
    \/ \E t \in TIMEPOINTS, v \in (-1)..MaxLimit : SetShiftUp(t, v)
    \/ \E t \in TIMEPOINTS, v \in (-1)..MaxLimit : SetShiftDown(t, v)

SpecSixHour == InitSixHour /\ [][NextSixHour]_vars

\* the first step of cycle ts
FirstStep(ts) == TPS_IN_TS[ts][1]

\* C21: in variant 3, for every cycle, the constraints bound the sum of
\* ShiftDemandDown over the cycle by dr_shift_down_limit at the cycle's
\* first step and the sum of ShiftDemandUp by dr_shift_up_limit at the
\* cycle's first step; a zero down-limit at the first step forces
\* ShiftDemandDown = 0 at every step of the cycle, whatever the limits at
\* the other steps.
C21_CycleLimitOfFirstStep ==
    Built =>
        \A ts \in TIMESERIES :
            /\ dr_six_hour_limit_rule_down(ts)
                  <=> SumSet(ShiftDemandDown, TpSet(ts)) <= dr_shift_down_limit[FirstStep(ts)]
            /\ dr_six_hour_limit_rule_up(ts)
                  <=> SumSet(ShiftDemandUp, TpSet(ts)) <= dr_shift_up_limit[FirstStep(ts)]
            /\ ( /\ dr_shift_down_limit[FirstStep(ts)] = 0
                 /\ dr_six_hour_limit_rule_down(ts)
                 /\ \A t \in TpSet(ts) : ShiftDemandDown_bounds(t) )
               => \A t \in TpSet(ts) : ShiftDemandDown[t] = 0

\* the first step has a zero down-limit: a down-shift within the bounds of
\* a later step breaks the cycle limit, while an up-shift up to the first
\* step's up-limit is admitted
C21_Witness ==
    /\ Built
    /\ \E ts \in TIMESERIES :
        /\ dr_shift_down_limit[FirstStep(ts)] = 0
        /\ \A t \in TpSet(ts) : ShiftDemandDown_bounds(t) /\ ShiftDemandUp_bounds(t)
        /\ \E t \in TpSet(ts) : ShiftDemandDown[t] > 0
        /\ ~dr_six_hour_limit_rule_down(ts)
        /\ SumSet(ShiftDemandUp, TpSet(ts)) = dr_shift_up_limit[FirstStep(ts)]
        /\ dr_six_hour_limit_rule_up(ts)

=============================================================================
